---- MODULE Spec2Model ----
(***************************************************************************)
(* Model of the patch sampler of src/syntax/sampler.py (class Sampler).     *)
(*                                                                         *)
(* State: the attributes of one Sampler object, the local variables of a   *)
(* sample_patches call in progress, and observation variables that record  *)
(* what the calls did (which seeds were evaluated, how many candidates     *)
(* each test rejected).                                                    *)
(*                                                                         *)
(* The collaborators of the sampler (the slide, the tissue mask, the       *)
(* annotation and the label reader) are inputs: their low-resolution grids *)
(* and downsample factors are drawn in Init, the shuffles in               *)
(* prepare_sampling, and the patches they return are drawn at each         *)
(* evaluation.                                                             *)
(*                                                                         *)
(* Numbers with a fraction are kept as exact rationals: a downsample       *)
(* factor is a count of halves, a threshold is a count of tenths.          *)
(***************************************************************************)
EXTENDS Integers, Sequences, FiniteSets, TLC

\* ------------------------------------------------------------------ bounds

\* The tissue mask is a grid of TissueRows x TissueCols cells, the
\* low-resolution annotation one of AnnotationRows x AnnotationCols cells.
TissueRows == 1
TissueCols == 3
AnnotationRows == 1
AnnotationCols == 2

\* Annotation labels are 0 .. MaxClass.
MaxClass == 2

\* A patch returned by a collaborator has PatchCells cells (np.prod(shape)).
PatchCells == 10

\* max_per_class is 'ALL' or an integer in 1 .. MaxQuota.
MaxQuota == 3

\* At most MaxRuns calls of sample_patches are followed.
MaxRuns == 2

\* ------------------------------------------------------- program constants

\* The fixed tissue threshold 0.9 of _class_c_patch_i, in tenths.
TissueThresholdTenths == 9

\* The default anno_threshold 0.9 of sample_patches, in tenths.
DefaultAnnoThresholdTenths == 9

\* ------------------------------------------------------------------ inputs

None == "None"

\* max_per_class: the string 'ALL' (not an int) or an int
ALL == [isInt |-> FALSE, value |-> 0]
Quota(n) == [isInt |-> TRUE, value |-> n]

\* The cells (row, col) of a grid of the given shape.
Cells(rows, cols) == (0 .. (rows - 1)) \X (0 .. (cols - 1))
TissueCells == Cells(TissueRows, TissueCols)
AnnotationCells == Cells(AnnotationRows, AnnotationCols)

\* Downsample factors, in halves: 2.5 for the tissue mask's level, 1.5 for the
\* low-resolution annotation.
TissueFactors == {5}
AnnotationFactors == {3}

\* The tissue mask is binary: 0 is background, 1 is tissue.
TissueGrids == [TissueCells -> {0, 1}]
AnnotationGrids == [AnnotationCells -> 0 .. MaxClass]

\* A patch is the sequence of its cells.
PatchOf(k, a, b) == [i \in 1 .. PatchCells |-> IF i <= k THEN a ELSE b]

\* Patches around the thresholds: k cells of one kind, the rest of another.
Coverages == {PatchCells - 2, PatchCells - 1}
TissuePatches == {PatchOf(k, 1, 0) : k \in Coverages}

\* anno_threshold values the caller may pass, in tenths.
AnnoThresholds == {5, DefaultAnnoThresholdTenths}

MaxPerClassValues == {ALL} \cup {Quota(n) : n \in 1 .. MaxQuota}

\* --------------------------------------------------------------- variables

VARIABLES
    annotation_dir,  \* __init__ argument: None or "dir"
    item_found,      \* truth of item_in_directory (FALSE when it is not called)
    annotation,      \* self.annotation: None or "Annotation"
    tissue_mask,     \* self.tissue_mask.data
    tissue_factor,   \* self.wsi.level_downsamples[self.tissue_mask.level], in halves
    annotation_low_res, \* grid returned by annotation.get_low_res_numpy
    annotation_factor,  \* factor returned by annotation.get_low_res_numpy, in halves
    class_list,      \* self.class_list (<< >> while the attribute is not set)
    class_seeds,     \* self.class_seeds
    rejected,        \* self.rejected
    max_per_class,   \* self.max_per_class
    anno_threshold,  \* self.anno_threshold, in tenths
    ignore_bg,       \* argument of the running sample_patches call
    frame,           \* local frame of sample_patches; the returned table
    ci,              \* position of the outer loop in _class_list (1-based)
    j,               \* position of the inner loop (0-based, as enumerate)
    count,           \* local count of sample_patches
    last,            \* locals of the latest _class_c_patch_i call
    pc,              \* "idle", "sampling", "returned", "aborted"
    fault,           \* exception that ended the program, or None
    runs,            \* number of sample_patches calls started
    runLog,          \* evaluations of the current run, in order
    earlier          \* one entry per sample_patches call made earlier since
                     \* prepare_sampling: the classes whose first seed it evaluated

cfgVars == <<annotation_dir, item_found, annotation, tissue_mask, tissue_factor,
             annotation_low_res, annotation_factor>>
selfVars == <<class_list, class_seeds, rejected, max_per_class, anno_threshold>>
loopVars == <<ignore_bg, frame, ci, j, count, last>>
obsVars == <<runs, runLog, earlier>>
vars == <<cfgVars, selfVars, loopVars, pc, fault, obsVars>>

\* ----------------------------------------------------------------- helpers

RECURSIVE Sum(_)
Sum(s) == IF s = << >> THEN 0 ELSE Head(s) + Sum(Tail(s))

Min(S) == CHOOSE x \in S : \A y \in S : x <= y

\* sorted(list(...)) of a set of integers
RECURSIVE Sorted(_)
Sorted(S) == IF S = {} THEN << >> ELSE <<Min(S)>> \o Sorted(S \ {Min(S)})

\* int(x * factor) for x >= 0 and a factor of f halves
IntTimes(x, f) == (x * f) \div 2

\* The cells of a grid in the order np.nonzero lists them (row-major).
CellSeq(grid) ==
    LET cols == Cardinality({cell[2] : cell \in DOMAIN grid})
    IN [k \in 1 .. Cardinality(DOMAIN grid) |-> <<(k - 1) \div cols, (k - 1) % cols>>]

IsSelected(cell, grid, c) == IF c = 0 THEN grid[cell] # 0 ELSE grid[cell] = c

\* np.nonzero(mask) as a list of (row, col)
Nonzero(grid, c) == SelectSeq(CellSeq(grid), LAMBDA cell : IsSelected(cell, grid, c))

\* A rescaling that rounds up instead of truncating.
RescaleUp(cell, f) == <<(cell[1] * f + 1) \div 2, (cell[2] * f + 1) \div 2>>

\* (int(row * factor), int(col * factor))
Rescale(cell, f) == <<IntTimes(cell[1], f), IntTimes(cell[2], f)>>

\* coordinates = [(int(nonzero[0][i] * factor), int(nonzero[1][i] * factor)) ...]
Coordinates(grid, c, f) ==
    LET nz == Nonzero(grid, c)
    IN [i \in 1 .. Len(nz) |-> Rescale(nz[i], f)]

\* The orders shuffle(coordinates) can leave the list in.
Shuffles(s) ==
    LET n == Len(s)
        Bij == {p \in [1 .. n -> 1 .. n] : \A a, b \in 1 .. n : p[a] = p[b] => a = b}
    IN {[i \in 1 .. n |-> s[p[i]]] : p \in Bij}

\* classes = sorted(list(np.unique(annotation_low_res)))
Unique(grid) == Sorted({grid[cell] : cell \in DOMAIN grid})

\* xml_reader.label_to_pixel(c): the pixel pattern of label c
label_to_pixel(c) == 50 * c + 5

Pixels == {label_to_pixel(c) : c \in 0 .. MaxClass}

\* Annotation patches: k cells of one label's pattern, the rest unlabelled (0).
AnnotationPatches == {PatchOf(k, a, 0) : k \in Coverages, a \in Pixels}

NoEval == [c |-> -1, j |-> -1, seed |-> << >>, tissue_mask_patch |-> << >>,
           annotation_patch |-> << >>, info |-> None, rejectedBy |-> None]

\* ------------------------------------------------------------ construction

\* A constructor that loads an annotation whenever a directory is given.
InitAnnotationAlways(dir, truth) == IF dir = None THEN None ELSE "Annotation"

\* Sampler.__init__: self.annotation
InitAnnotation(dir, truth) ==
    IF dir = None THEN None
    ELSE IF ~truth THEN None
    ELSE "Annotation"

Init ==
    /\ annotation_dir \in {None, "dir"}
    /\ item_found \in (IF annotation_dir = None THEN {FALSE} ELSE BOOLEAN)
    /\ annotation = InitAnnotation(annotation_dir, item_found)
    /\ tissue_mask \in TissueGrids
    /\ tissue_factor \in TissueFactors
    /\ IF annotation = None
          THEN /\ annotation_low_res = None
               /\ annotation_factor = None
          ELSE /\ annotation_low_res \in AnnotationGrids
               /\ annotation_factor \in AnnotationFactors
    /\ class_list = << >>
    /\ class_seeds = << >>
    /\ rejected = 0
    /\ max_per_class = None
    /\ anno_threshold = None
    /\ ignore_bg = None
    /\ frame = << >>
    /\ ci = 0
    /\ j = 0
    /\ count = 0
    /\ last = NoEval
    /\ pc = "idle"
    /\ fault = None
    /\ runs = 0
    /\ runLog = << >>
    /\ earlier = << >>

\* -------------------------------------------------------- prepare_sampling

\* No assertion on the annotation classes.
AssertionSkipped(classes) == TRUE

\* The assertion of _get_classes_and_seeds: assert classes[0] == 0
AssertionHolds(classes) == classes[1] = 0

\* The lists of seed lists the loop over the annotation classes can build.
RECURSIVE SeedLists(_, _, _)
SeedLists(classes, grid, f) ==
    IF classes = << >> THEN {<< >>}
    ELSE {<<s>> \o rest : s \in Shuffles(Coordinates(grid, Head(classes), f)),
                          rest \in SeedLists(Tail(classes), grid, f)}

\* _get_classes_and_seeds, up to the assertion: class 0 from the tissue mask
\* prepare_sampling, including _get_classes_and_seeds
PrepareSampling ==
    /\ pc \in {"idle", "returned"}
    /\ rejected' = 0
    /\ \E seeds0 \in Shuffles(Coordinates(tissue_mask, 0, tissue_factor)) :
         IF annotation = None
            THEN /\ class_list' = <<0>>
                 /\ class_seeds' = <<seeds0>>
                 /\ pc' = "idle"
                 /\ fault' = fault
            ELSE LET classes == Unique(annotation_low_res)
                 IN IF ~AssertionHolds(classes)
                       THEN /\ class_list' = <<0>>
                            /\ class_seeds' = <<seeds0>>
                            /\ pc' = "aborted"
                            /\ fault' = "AssertionError"
                       ELSE /\ class_list' = <<0>> \o Tail(classes)
                            /\ \E more \in SeedLists(Tail(classes), annotation_low_res,
                                                     annotation_factor) :
                                 class_seeds' = <<seeds0>> \o more
                            /\ pc' = "idle"
                            /\ fault' = fault
    /\ frame' = << >>
    /\ last' = NoEval
    /\ runLog' = << >>
    /\ earlier' = << >>
    /\ UNCHANGED <<cfgVars, max_per_class, anno_threshold, ignore_bg, ci, j, count, runs>>

\* ---------------------------------------------------------- sample_patches

\* A working list that keeps class 0 whatever ignore_bg is.
WorkingClassListAll(ignore, classes) == classes

\* _class_list of sample_patches
WorkingClassList(ignore, classes) == IF ignore THEN Tail(classes) ELSE classes

\* list.index
Index(s, x) == Min({i \in DOMAIN s : s[i] = x})

\* The classes a run evaluated a seed of (each from its first seed on).
LogClasses(log) == {log[i].c : i \in DOMAIN log}

\* sample_patches up to the loop over _class_list
SamplePatches ==
    /\ pc \in {"idle", "returned"}
    /\ runs < MaxRuns
    /\ \E ign \in BOOLEAN, m \in MaxPerClassValues, t \in AnnoThresholds :
         /\ ignore_bg' = ign
         /\ max_per_class' = m
         /\ anno_threshold' = t
    /\ IF class_list = << >>
          THEN /\ pc' = "aborted"
               /\ fault' = "AttributeError"
          ELSE /\ pc' = "sampling"
               /\ fault' = fault
    /\ frame' = << >>
    /\ ci' = 1
    /\ j' = 0
    /\ count' = 0
    /\ last' = NoEval
    /\ runs' = runs + 1
    /\ earlier' = IF pc = "returned" THEN Append(earlier, LogClasses(runLog)) ELSE earlier
    /\ runLog' = << >>
    /\ UNCHANGED <<cfgVars, class_list, class_seeds, rejected>>

\* A tissue test that also rejects a fraction equal to the threshold.
TissueRejectsInclusive(patch) == 10 * Sum(patch) <= TissueThresholdTenths * Len(patch)

\* The tissue test of _class_c_patch_i:
\* np.sum(tissue_mask_patch) / np.prod(tissue_mask_patch.shape) < 0.9
TissueRejects(patch) == 10 * Sum(patch) < TissueThresholdTenths * Len(patch)

\* mask = (annotation_patch == pixel_pattern)
PatternMask(patch, pattern) ==
    [i \in DOMAIN patch |-> IF patch[i] = pattern THEN 1 ELSE 0]

\* An annotation test that also rejects a fraction equal to the threshold.
AnnotationRejectsInclusive(patch, c, threshold) ==
    10 * Sum(PatternMask(patch, label_to_pixel(c))) <= threshold * Len(patch)

\* The annotation test of _class_c_patch_i:
\* np.sum(mask) / np.prod(mask.shape) < self.anno_threshold
AnnotationRejects(patch, c, threshold) ==
    10 * Sum(PatternMask(patch, label_to_pixel(c))) < threshold * Len(patch)

\* info of _class_c_patch_i: h, w = self.class_seeds[idx][i]
Info(c, seed) == [w |-> seed[2], h |-> seed[1], class |-> c]

\* _class_c_patch_i(c, i) given the patches the collaborators return:
\* the locals of the call, with info = None when the candidate is rejected.
ClassCPatchI(c, i, tmp, ap) ==
    LET idx == Index(class_list, c)
        seed == class_seeds[idx][i + 1]
        base == [c |-> c, j |-> i, seed |-> seed, tissue_mask_patch |-> tmp,
                 annotation_patch |-> << >>, info |-> None, rejectedBy |-> None]
    IN IF TissueRejects(tmp)
          THEN [base EXCEPT !.rejectedBy = "tissue"]
          ELSE IF annotation = None
                  THEN [base EXCEPT !.info = Info(c, seed)]
                  ELSE IF AnnotationRejects(ap, c, anno_threshold)
                          THEN [base EXCEPT !.annotation_patch = ap,
                                            !.rejectedBy = "annotation"]
                          ELSE [base EXCEPT !.annotation_patch = ap,
                                            !.info = Info(c, seed)]

\* A quota test applied to 'ALL' as well.
IsIntAlways(m) == TRUE

\* isinstance(self.max_per_class, int)
IsInt(m) == m.isInt

\* A quota test that stops at max_per_class accepted candidates.
QuotaBreakAtMax(m, n) == n >= m

\* if count >= (self.max_per_class - 1): break
QuotaBreak(m, n) == n >= m - 1

\* An iteration that skips every other seed.
NextIndexSkip(i) == i + 2

\* for j, seed in enumerate(seeds): the index after i
NextIndex(i) == i + 1

\* One iteration of the inner loop of sample_patches.
EvalSeed ==
    /\ pc = "sampling"
    /\ ci <= Len(WorkingClassList(ignore_bg, class_list))
    /\ LET c == WorkingClassList(ignore_bg, class_list)[ci]
           index == Index(class_list, c)
           seeds == class_seeds[index]
       IN /\ j < Len(seeds)
          /\ \E tmp \in TissuePatches, ap \in AnnotationPatches :
               LET r == ClassCPatchI(c, j, tmp, ap)
                   accepted == r.rejectedBy = None
                   isInt == IsInt(max_per_class)
                   newCount == IF isInt /\ accepted THEN count + 1 ELSE count
                   stop == isInt /\ QuotaBreak(max_per_class.value, newCount)
               IN /\ last' = r
                  /\ frame' = IF accepted THEN Append(frame, r.info) ELSE frame
                  /\ rejected' = IF accepted THEN rejected ELSE rejected + 1
                  /\ runLog' = Append(runLog, [c |-> c, j |-> j, accepted |-> accepted])
                  /\ IF stop
                        THEN /\ ci' = ci + 1
                             /\ j' = 0
                             /\ count' = 0
                        ELSE /\ ci' = ci
                             /\ j' = NextIndex(j)
                             /\ count' = newCount
    /\ UNCHANGED <<cfgVars, class_list, class_seeds, max_per_class, anno_threshold,
                   ignore_bg, pc, fault, runs, earlier>>

\* The inner loop ends because the seeds of the class are exhausted.
NextClass ==
    /\ pc = "sampling"
    /\ ci <= Len(WorkingClassList(ignore_bg, class_list))
    /\ LET c == WorkingClassList(ignore_bg, class_list)[ci]
       IN j >= Len(class_seeds[Index(class_list, c)])
    /\ ci' = ci + 1
    /\ j' = 0
    /\ count' = 0
    /\ UNCHANGED <<cfgVars, selfVars, ignore_bg, frame, last, pc, fault, obsVars>>

\* The outer loop has ended: report, save and return frame.
ReturnFrame ==
    /\ pc = "sampling"
    /\ ci > Len(WorkingClassList(ignore_bg, class_list))
    /\ pc' = "returned"
    /\ last' = NoEval
    /\ UNCHANGED <<cfgVars, selfVars, ignore_bg, frame, ci, j, count, fault, obsVars>>

Next == PrepareSampling \/ SamplePatches \/ EvalSeed \/ NextClass \/ ReturnFrame

Spec == Init /\ [][Next]_vars

\* ------------------------------------------------ vocabulary of the claims

InRun == pc \in {"sampling", "returned"}

WorkingList == WorkingClassList(ignore_bg, class_list)

SeedsOf(c) == class_seeds[Index(class_list, c)]

\* The evaluations of class c in the current run, in order.
EvalsOf(c) == SelectSeq(runLog, LAMBDA e : e.c = c)

AcceptedEvals(c) == Len(SelectSeq(runLog, LAMBDA e : e.c = c /\ e.accepted))

\* The records of class c in the table.
Records(c) == Len(SelectSeq(frame, LAMBDA r : r.class = c))

\* The candidates the current run rejected.
RunRejected == Len(SelectSeq(runLog, LAMBDA e : ~e.accepted))

\* The number of cells of a patch that satisfy a test.
CountCells(patch, Test(_)) == Cardinality({i \in DOMAIN patch : Test(patch[i])})

\* The number of cells of a grid whose rescaled coordinate is v.
CellsAt(grid, c, f, v) ==
    Cardinality({cell \in DOMAIN grid :
                   /\ IF c = 0 THEN grid[cell] # 0 ELSE grid[cell] = c
                   /\ v = <<(cell[1] * f) \div 2, (cell[2] * f) \div 2>>})

\* The number of entries of a sequence equal to v.
Occurrences(s, v) == Cardinality({i \in DOMAIN s : s[i] = v})

\* Every seed of every class of the working list, class by class, in order.
RECURSIVE FullLog(_)
FullLog(classes) ==
    IF classes = << >> THEN << >>
    ELSE [i \in 1 .. Len(SeedsOf(Head(classes))) |-> <<Head(classes), i - 1>>]
         \o FullLog(Tail(classes))

LogPairs(log) == [i \in DOMAIN log |-> <<log[i].c, log[i].j>>]

\* ------------------------------------------------------------------ claims

\* C1 as stated: for every integer max_per_class = m >= 1, a class of the
\* working list with at least m - 1 passing candidates ends the run with
\* exactly m - 1 records in the table.
C1_Original ==
    (pc = "returned" /\ max_per_class.isInt) =>
        \A k \in DOMAIN WorkingList :
            LET c == WorkingList[k]
            IN AcceptedEvals(c) >= max_per_class.value - 1
                 => Records(c) = max_per_class.value - 1

\* C1 amended: for m >= 2 a class never gets more than m - 1 records, its
\* iteration stops at the evaluation that accepts the (m - 1)th candidate, and
\* a class left with fewer records had all its seeds evaluated; for m = 1 the
\* quota is tested only after the first seed was evaluated, so exactly one
\* seed of a non-empty class is evaluated and it yields a record if it passes.
C1_Quota ==
    (pc = "returned" /\ max_per_class.isInt) =>
        \A k \in DOMAIN WorkingList :
            LET c == WorkingList[k]
                m == max_per_class.value
                evals == EvalsOf(c)
            IN IF m >= 2
                  THEN /\ Records(c) <= m - 1
                       /\ Records(c) = m - 1 => evals[Len(evals)].accepted
                       /\ Records(c) < m - 1 => Len(evals) = Len(SeedsOf(c))
                  ELSE /\ Len(evals) = (IF SeedsOf(c) = << >> THEN 0 ELSE 1)
                       /\ Records(c) = AcceptedEvals(c)

\* C1 witness: max_per_class = 3, class 0 has three seeds, the first two pass
\* and the third is never evaluated.
C1_Witness ==
    /\ pc = "returned"
    /\ max_per_class = Quota(3)
    /\ ~ignore_bg
    /\ Len(class_seeds[1]) = 3
    /\ Records(0) = 2
    /\ Len(EvalsOf(0)) = 2

C3_BackgroundExcluded ==
    (InRun /\ ignore_bg = TRUE) =>
        /\ \A i \in DOMAIN runLog : runLog[i].c # 0
        /\ \A i \in DOMAIN frame : frame[i].class # 0
        /\ last.c # 0

\* C3 witness: class 0 has seeds, the run ignored them and accepted a
\* candidate of another class.
C3_Witness ==
    /\ pc = "returned"
    /\ ignore_bg = TRUE
    /\ class_seeds[1] # << >>
    /\ frame # << >>

\* C4: the rejection count reported at the end of a run is the number of
\* candidates rejected during that run.
C4_FreshCounter == pc = "returned" => rejected = RunRejected

\* C5 as stated: over the sample_patches calls that follow one
\* prepare_sampling, a seed is evaluated at most once: a call never evaluates
\* the first seed of a class that an earlier call already evaluated.
C5_Original ==
    InRun =>
        \A i \in DOMAIN runLog :
            runLog[i].j = 0 => \A k \in DOMAIN earlier : runLog[i].c \notin earlier[k]

\* C5 amended: within one sample_patches call each seed of a class is
\* evaluated at most once, in list order from the first seed of the list.
C5_OncePerCall ==
    InRun =>
        \A k \in DOMAIN class_list :
            LET evals == EvalsOf(class_list[k])
            IN /\ Len(evals) <= Len(class_seeds[k])
               /\ \A i \in DOMAIN evals : evals[i].j = i - 1

\* C5 witness: a later call evaluates again the first two seeds of class 0.
C5_Witness ==
    /\ InRun
    /\ Len(earlier) = 1
    /\ 0 \in earlier[1]
    /\ Len(EvalsOf(0)) = 2

\* C6: a run with max_per_class = 'ALL' evaluates every seed of every class of
\* the working list exactly once and in order, so records plus rejections
\* equal the number of seeds; with no annotation, class 0 in the working list
\* and no rejection, the table has one class-0 row per tissue cell and the
\* rejection count is 0.
C6_Unbounded ==
    (pc = "returned" /\ ~max_per_class.isInt) =>
        /\ LogPairs(runLog) = FullLog(WorkingList)
        /\ Len(frame) + RunRejected = Len(FullLog(WorkingList))
        /\ earlier = << >> => Len(frame) + rejected = Len(FullLog(WorkingList))
        /\ (annotation = None /\ ~ignore_bg /\ earlier = << >> /\ RunRejected = 0) =>
              /\ Len(frame) = Cardinality({cell \in DOMAIN tissue_mask :
                                             tissue_mask[cell] # 0})
              /\ \A i \in DOMAIN frame : frame[i].class = 0
              /\ rejected = 0

\* C6 witness: no annotation, three tissue cells, all three accepted.
C6_Witness ==
    /\ pc = "returned"
    /\ max_per_class = ALL
    /\ annotation = None
    /\ ~ignore_bg
    /\ Len(frame) = 3
    /\ rejected = 0

\* C7, the states: with no annotation no assertion fails and a prepared
\* sampler never faults, the class list is [0], no annotation patch is
\* requested or tested, and every record has class 0.
C7_State ==
    (annotation_dir = None \/ ~item_found) =>
        /\ annotation = None
        /\ fault # "AssertionError"
        /\ class_list # << >> => (class_list = <<0>> /\ fault = None /\ pc # "aborted")
        /\ last.annotation_patch = << >>
        /\ last.rejectedBy # "annotation"
        /\ \A i \in DOMAIN frame : frame[i].class = 0
        /\ (InRun /\ earlier = << >>) => rejected = RunRejected

\* C7, the steps: with no annotation the rejection counter changes only by
\* being reset or by counting one rejection of the tissue test.
C7_Step ==
    (annotation_dir = None \/ ~item_found) =>
        \/ rejected' = rejected
        \/ rejected' = 0
        \/ rejected' = rejected + 1 /\ last'.rejectedBy = "tissue"

\* C7: with no annotation source, sampling runs without a fault on the class
\* list [0], never applies the annotation test, yields only class-0 records
\* and counts only tissue rejections.
C7_NoAnnotation == []C7_State /\ [][C7_Step]_vars

\* C7 witness: an annotation directory was given but had no entry for the
\* slide; the run accepted one candidate and rejected another.
C7_Witness ==
    /\ annotation_dir = "dir"
    /\ ~item_found
    /\ annotation = None
    /\ pc = "returned"
    /\ frame # << >>
    /\ rejected > 0

\* C8: after prepare_sampling the seeds of class 0 are a permutation of the
\* rescaled coordinates of the nonzero cells of the tissue mask, and the seeds
\* of a class c > 0 one of the rescaled coordinates of the annotation cells
\* equal to c; the classes after 0 are the nonzero annotation values.
C8_SeedCompleteness ==
    (class_list # << >> /\ pc # "aborted") =>
        /\ class_list[1] = 0
        /\ Len(class_seeds) = Len(class_list)
        /\ Len(class_seeds[1]) =
             Cardinality({cell \in DOMAIN tissue_mask : tissue_mask[cell] # 0})
        /\ \A i \in DOMAIN class_seeds[1] :
             Occurrences(class_seeds[1], class_seeds[1][i])
               = CellsAt(tissue_mask, 0, tissue_factor, class_seeds[1][i])
        /\ annotation # None =>
             /\ {class_list[k] : k \in 2 .. Len(class_list)}
                  = {annotation_low_res[cell] : cell \in DOMAIN annotation_low_res} \ {0}
             /\ \A k \in 2 .. Len(class_list) :
                  /\ Len(class_seeds[k]) =
                       Cardinality({cell \in DOMAIN annotation_low_res :
                                      annotation_low_res[cell] = class_list[k]})
                  /\ \A i \in DOMAIN class_seeds[k] :
                       Occurrences(class_seeds[k], class_seeds[k][i])
                         = CellsAt(annotation_low_res, class_list[k],
                                   annotation_factor, class_seeds[k][i])

\* C8 witness: three tissue cells shuffled out of grid order, and an
\* annotation class with a seed away from the origin.
C8_Witness ==
    /\ pc = "idle"
    /\ Len(class_list) = 2
    /\ Len(class_seeds[1]) = 3
    /\ class_seeds[1][1] # <<0, 0>>
    /\ class_seeds[2] = <<<<0, 1>>>>

\* C9: with an annotation whose smallest value is not 0, prepare_sampling
\* aborts with an assertion error; no candidate is evaluated and no table is
\* produced.
C9_FatalPrecondition ==
    (annotation # None
       /\ \A cell \in DOMAIN annotation_low_res : annotation_low_res[cell] # 0) =>
        /\ class_list # << >> => (pc = "aborted" /\ fault = "AssertionError")
        /\ pc \notin {"sampling", "returned"}
        /\ runLog = << >>
        /\ frame = << >>
        /\ last = NoEval

\* C9 witness: prepare_sampling has aborted on such an annotation.
C9_Witness ==
    /\ annotation # None
    /\ pc = "aborted"
    /\ fault = "AssertionError"
    /\ class_list = <<0>>

\* C10: with an annotation, a candidate of class c that passed the tissue test
\* is accepted if and only if the fraction of cells of its annotation patch
\* equal to the pixel pattern of c is not less than anno_threshold; an accepted
\* candidate is the last record of the table, with class c and the offsets of
\* its seed, and the table has one record per accepted candidate.
C10_AnnotationTest ==
    /\ InRun => Len(frame) = Len(SelectSeq(runLog, LAMBDA e : e.accepted))
    /\ (annotation # None /\ last.c # -1 /\ last.rejectedBy # "tissue") =>
         LET c == last.c
             n == Len(last.annotation_patch)
             match == CountCells(last.annotation_patch,
                                 LAMBDA x : x = label_to_pixel(c))
             seed == SeedsOf(c)[last.j + 1]
         IN /\ n = PatchCells
            /\ (last.rejectedBy = None) <=> ~(10 * match < anno_threshold * n)
            /\ last.rejectedBy = None =>
                 /\ frame # << >>
                 /\ frame[Len(frame)] = [w |-> seed[2], h |-> seed[1], class |-> c]
                 /\ last.info = frame[Len(frame)]

\* C10 witness: a candidate of class 0 whose matching fraction equals
\* anno_threshold was accepted.
C10_Witness ==
    /\ annotation # None
    /\ last.c = 0
    /\ last.rejectedBy = None
    /\ 10 * CountCells(last.annotation_patch, LAMBDA x : x = label_to_pixel(0))
         = anno_threshold * Len(last.annotation_patch)
    /\ last.seed # <<0, 0>>

====
